---------------------------- MODULE Spec2Model ----------------------------
(***************************************************************************)
(* A model of generate_schedule (src/main.py, lines 57-220): the greedy    *)
(* timetable solver of UniShedAI.  One behaviour is one solve of one       *)
(* request.  The request is chosen in Init and never changes; the actions  *)
(* are the stages of the function, in the order the code runs them:        *)
(*   Prepare / ReturnNoSlots   lines 58-80   (slot lattice, dictionaries)  *)
(*   ExpandSeminar / ExpandLecture  85-133   (one assignment per step)     *)
(*   SortTasks                 lines 136-145 (priorities, empty occupancy) *)
(*   PlaceTask / RejectTask / RaiseKeyError  148-216 (one task per step)   *)
(*   Report                    lines 219-220 (chronological sort, return)  *)
(* Names are those of the source.  Python dictionaries are functions whose *)
(* DOMAIN is the set of keys; Python lists are sequences.                  *)
(*                                                                         *)
(* Input domain: group sizes, room capacities and repetition counts are    *)
(* naturals, names are non-empty strings, room names and group names are   *)
(* unique keys of their lists (spec.md, section 3), day labels and time    *)
(* labels are distinct.  Teachers, groups and preferred rooms that the     *)
(* request's lists do not declare are part of the domain.                  *)
(***************************************************************************)
EXTENDS Integers, Sequences, FiniteSets, TLC

(***************************************************************************)
(* Program constants.                                                      *)
(***************************************************************************)
\* The "unbounded" capacity sentinel: lines 80 and 179, and RoomItem's default.
Unbounded == 9999

\* target = None (line 178).  Room names are non-empty strings, so the only
\* falsy target of lines 187 and 195 is None.
None == "<None>"

\* The two diagnostic reasons (lines 175 and 213).
NoCommonFreeTime == "no common free time"

NoRoomOfCapacity == "no free room of sufficient capacity"

(***************************************************************************)
(* Bounds of the model.                                                    *)
(***************************************************************************)
\* days is a prefix of AllDays of length 0..MaxDays
MaxDays == 2

\* times is a prefix of AllTimes of length 0..MaxTimes
MaxTimes == 2

\* an assignment's count is in 0..MaxCount
MaxCount == 2

AllDays == <<"Mon", "Tue", "Wed", "Thu">>

AllTimes == <<"09:00", "10:00", "11:00", "12:00", "13:00", "14:00">>

(***************************************************************************)
(* Generic helpers: Python's list and dict primitives.                     *)
(***************************************************************************)
Range(s) == {s[i] : i \in DOMAIN s}

\* d.get(k, default)
DictGet(d, k, default) == IF k \in DOMAIN d THEN d[k] ELSE default

RECURSIVE SumSeq(_)
\* sum(...) of a sequence of integers
SumSeq(s) == IF s = <<>> THEN 0 ELSE s[1] + SumSeq(Tail(s))

\* Python's tuple comparison a < b for two tuples of integers of equal length
TupleLess(a, b) ==
    \E i \in DOMAIN a :
        /\ a[i] < b[i]
        /\ \A j \in 1..(i - 1) : a[j] = b[j]

\* list.sort(key=...) / sorted(key=...): keys[i] is the key (a tuple of
\* integers) of items[i].  Python's sort is stable, so the result is the one
\* permutation that orders the keys and keeps equal keys in input order;
\* SortRank(keys, i) is the position items[i] ends in.
SortRank(keys, i) ==
    Cardinality({j \in DOMAIN keys : TupleLess(keys[j], keys[i])})
    + Cardinality({j \in 1..(i - 1) : keys[j] = keys[i]}) + 1

StableSort(items, keys) ==
    [p \in DOMAIN items |->
        items[CHOOSE i \in DOMAIN items : SortRank(keys, i) = p]]

\* the same with reverse=True: descending keys, equal keys still in input order
SortRankReverse(keys, i) ==
    Cardinality({j \in DOMAIN keys : TupleLess(keys[i], keys[j])})
    + Cardinality({j \in 1..(i - 1) : keys[j] = keys[i]}) + 1

StableSortReverse(items, keys) ==
    [p \in DOMAIN items |->
        items[CHOOSE i \in DOMAIN items : SortRankReverse(keys, i) = p]]

RECURSIVE Join(_)
\* ", ".join(names)
Join(names) ==
    IF names = <<>> THEN ""
    ELSE IF Len(names) = 1 THEN names[1]
    ELSE names[1] \o ", " \o Join(Tail(names))

RECURSIVE Repeat(_, _)
\* [x for _ in range(n)]: nothing when n <= 0
Repeat(x, n) == IF n <= 0 THEN <<>> ELSE <<x>> \o Repeat(x, n - 1)

RECURSIVE Flatten(_)
Flatten(ss) == IF ss = <<>> THEN <<>> ELSE ss[1] \o Flatten(Tail(ss))


(***************************************************************************)
(* 1. Slot lattice and lookup dictionaries (lines 58-80).                  *)
(***************************************************************************)
\* s_name = f"{d} {t}" (line 64)
SlotName(d, t) == d \o " " \o t

\* slots after the loops of lines 62-66: all times of day 1, then day 2, ...
SlotsOf(days, times) ==
    [k \in 1..(Len(days) * Len(times)) |->
        SlotName(days[((k - 1) \div Len(times)) + 1],
                 times[((k - 1) % Len(times)) + 1])]

\* slot_map after the loops of lines 62-66; a later (day, time) pair with the
\* same name overwrites an earlier one (line 66); time_idx is zero-based
SlotMapOf(days, times) ==
    LET pairs == {<<di, ti>> : di \in DOMAIN days, ti \in DOMAIN times}
        named(s) == {p \in pairs : SlotName(days[p[1]], times[p[2]]) = s}
        last(s) == CHOOSE p \in named(s) :
                      \A q \in named(s) :
                          \/ q[1] < p[1]
                          \/ q[1] = p[1] /\ q[2] <= p[2]
    IN  [s \in {SlotName(days[p[1]], times[p[2]]) : p \in pairs} |->
            [day |-> days[last(s)[1]], time_idx |-> last(s)[2] - 1]]

\* {g.name: g.size for g in data.groups} (line 72): the last item of a name wins
GroupSizesOf(groups) ==
    [n \in {groups[i].name : i \in DOMAIN groups} |->
        groups[CHOOSE i \in DOMAIN groups :
                  /\ groups[i].name = n
                  /\ \A j \in DOMAIN groups : groups[j].name = n => j <= i].size]

\* {r.name: r.capacity for r in data.rooms} (line 73)
RoomCapsOf(rooms) ==
    [n \in {rooms[i].name : i \in DOMAIN rooms} |->
        rooms[CHOOSE i \in DOMAIN rooms :
                 /\ rooms[i].name = n
                 /\ \A j \in DOMAIN rooms : rooms[j].name = n => j <= i].capacity]

\* [r.name for r in data.rooms] (line 74)
RoomNamesOf(rooms) == [i \in DOMAIN rooms |-> rooms[i].name]

\* max(r.capacity for r in data.rooms) (line 79), rooms non-empty
MaxCapacity(rooms) ==
    CHOOSE c \in {rooms[i].capacity : i \in DOMAIN rooms} :
        \A i \in DOMAIN rooms : rooms[i].capacity <= c

\* max_cap after lines 77-80.  The zero test of line 80 is inside the
\* "if data.rooms" of line 78: with no rooms max_cap stays 0.
MaxCapOf(rooms) ==
    IF rooms # <<>>
    THEN IF MaxCapacity(rooms) = 0 THEN Unbounded ELSE MaxCapacity(rooms)
    ELSE 0

(***************************************************************************)
(* 2. Task expansion (lines 85-133).                                       *)
(***************************************************************************)
\* group_sizes.get(g, 0)
SizeOf(sizes, g) == DictGet(sizes, g, 0)

\* sum(group_sizes.get(g, 0) for g in groups) (lines 136 and 151)
Enrollment(sizes, groups) == SumSeq([i \in DOMAIN groups |-> SizeOf(sizes, groups[i])])

Task(assign, groups, type) ==
    [teacher |-> assign.teacher, groups |-> groups,
     subject |-> assign.subject, type |-> type]

\* SeminarTasks with the groups of the assignment kept together, as for a stream
SeminarTasksMerged(assign) ==
    Repeat(Task(assign, assign.groups, "seminar"), assign.count)

\* lines 90-97: for every group, count tasks with that group alone
SeminarTasks(assign) ==
    Flatten([i \in DOMAIN assign.groups |->
                Repeat(Task(assign, <<assign.groups[i]>>, "seminar"), assign.count)])

\* SortedGroups without reverse=True
SortedGroupsAscending(sizes, groups) ==
    StableSort(groups, [i \in DOMAIN groups |-> <<SizeOf(sizes, groups[i])>>])

\* sorted(assign.groups, key=size, reverse=True) (line 101)
SortedGroups(sizes, groups) ==
    StableSortReverse(groups, [i \in DOMAIN groups |-> <<SizeOf(sizes, groups[i])>>])

\* StreamStep with the test of line 114 always true
StreamStepUnlimited(acc, g_name, sizes, cap) ==
    LET g_size == SizeOf(sizes, g_name) IN
    IF g_size > cap
    THEN [acc EXCEPT !.streams = Append(@, <<g_name>>)]
    ELSE [acc EXCEPT !.current_stream = Append(@, g_name),
                     !.current_size = @ + g_size]

\* one iteration of the loop of lines 106-121 on the loop state
\* acc = [current_stream, current_size, streams]
StreamStep(acc, g_name, sizes, cap) ==
    LET g_size == SizeOf(sizes, g_name) IN
    IF g_size > cap
    THEN [acc EXCEPT !.streams = Append(@, <<g_name>>)]
    ELSE IF acc.current_size + g_size <= cap
    THEN [acc EXCEPT !.current_stream = Append(@, g_name),
                     !.current_size = @ + g_size]
    ELSE [current_stream |-> <<g_name>>,
          current_size |-> g_size,
          streams |-> IF acc.current_stream # <<>>
                      THEN Append(acc.streams, acc.current_stream)
                      ELSE acc.streams]

RECURSIVE StreamLoop(_, _, _, _)
StreamLoop(acc, sorted_groups, sizes, cap) ==
    IF sorted_groups = <<>> THEN acc
    ELSE StreamLoop(StreamStep(acc, Head(sorted_groups), sizes, cap),
                    Tail(sorted_groups), sizes, cap)

\* streams after line 123
StreamsOf(groups, sizes, cap) ==
    LET acc == StreamLoop([current_stream |-> <<>>, current_size |-> 0, streams |-> <<>>],
                          SortedGroups(sizes, groups), sizes, cap)
    IN  IF acc.current_stream # <<>>
        THEN Append(acc.streams, acc.current_stream)
        ELSE acc.streams

\* lines 126-133: for every stream, count tasks with the stream's groups
LectureTasks(assign, strs) ==
    Flatten([i \in DOMAIN strs |-> Repeat(Task(assign, strs[i], "lecture"), assign.count)])

\* the sort key of line 136
TaskKey(sizes, task) ==
    <<IF task.type = "lecture" THEN 1 ELSE 0,
      Len(task.groups),
      Enrollment(sizes, task.groups)>>

\* SortedTasks without reverse=True
SortedTasksAscending(sizes, ts) ==
    StableSort(ts, [i \in DOMAIN ts |-> TaskKey(sizes, ts[i])])

\* tasks.sort(key=..., reverse=True) (line 136)
SortedTasks(sizes, ts) ==
    StableSortReverse(ts, [i \in DOMAIN ts |-> TaskKey(sizes, ts[i])])

(***************************************************************************)
(* State of one solve.                                                     *)
(***************************************************************************)
VARIABLES
    data,           \* the request (SessionData), never modified
    pc,             \* "prepare", "expand", "place", "returned" or "raised"
    slots,          \* line 58
    slot_map,       \* line 59
    group_sizes,    \* line 72
    room_caps,      \* line 73
    room_names,     \* line 74
    max_cap,        \* lines 77-80
    tasks,          \* line 82
    assign_i,       \* position of the loop of line 85 in data.assignments
    streams,        \* line 104: the streams of the lecture assignment expanded last
    schedule,       \* line 138
    errors,         \* line 139
    occ_teachers,   \* line 142
    occ_groups,     \* line 143
    occ_rooms,      \* line 144
    teacher_daily,  \* line 145
    task_i,         \* position of the loop of line 148 in tasks
    result          \* the returned dictionary, None until the function returns

vars == <<data, pc, slots, slot_map, group_sizes, room_caps, room_names, max_cap,
          tasks, assign_i, streams, schedule, errors, occ_teachers, occ_groups,
          occ_rooms, teacher_daily, task_i, result>>

(***************************************************************************)
(* 3. Placement of one task (lines 149-216), read in the current state.    *)
(***************************************************************************)
\* Avail without line 166: a teacher already teaching in the slot stays a candidate
AvailIgnoringTeacher(task) ==
    LET free(slot) ==
            /\ \A i \in DOMAIN task.groups : task.groups[i] \notin occ_groups[slot]
            /\ ~(/\ task.teacher \in DOMAIN data.teacher_busy
                  /\ slot \in Range(data.teacher_busy[task.teacher]))
    IN  SelectSeq(slots, free)

\* Avail without line 168: the teacher's busy list is not consulted
AvailIgnoringBusy(task) ==
    LET free(slot) ==
            /\ task.teacher \notin occ_teachers[slot]
            /\ \A i \in DOMAIN task.groups : task.groups[i] \notin occ_groups[slot]
    IN  SelectSeq(slots, free)

\* the filter of lines 164-169, in the order of slots
Avail(task) ==
    LET free(slot) ==
            /\ task.teacher \notin occ_teachers[slot]
            /\ \A i \in DOMAIN task.groups : task.groups[i] \notin occ_groups[slot]
            /\ ~(/\ task.teacher \in DOMAIN data.teacher_busy
                  /\ slot \in Range(data.teacher_busy[task.teacher]))
    IN  SelectSeq(slots, free)

\* teacher_daily[t_name] of line 156 raises KeyError for a teacher that
\* data.teachers does not list; score runs once per element of avail (line 172)
ScoreRaises(task) == Avail(task) # <<>> /\ task.teacher \notin DOMAIN teacher_daily

\* min(abs(info["time_idx"] - e) for e in exist) (line 158), exist non-empty
MinDist(time_idx, exist) ==
    LET Abs(x) == IF x < 0 THEN -x ELSE x
    IN  CHOOSE d \in {Abs(time_idx - e) : e \in exist} :
            \A e \in exist : d <= Abs(time_idx - e)

\* score(slot) (lines 154-161)
Score(t_name, slot) ==
    LET info == slot_map[slot]
        exist == teacher_daily[t_name][info.day]
    IN  IF exist = {} THEN 10
        ELSE IF MinDist(info.time_idx, exist) = 1 THEN 100
        ELSE IF MinDist(info.time_idx, exist) = 2 THEN -50
        ELSE 0

\* SortedAvail without reverse=True
SortedAvailAscending(task) ==
    LET avail == Avail(task)
    IN  StableSort(avail, [i \in DOMAIN avail |-> <<Score(task.teacher, avail[i])>>])

\* avail after avail.sort(key=score, reverse=True) (line 172)
SortedAvail(task) ==
    LET avail == Avail(task)
    IN  StableSortReverse(avail, [i \in DOMAIN avail |-> <<Score(task.teacher, avail[i])>>])

\* Fits with the comparison of line 179 turned round
FitsReversed(r, stud_count) ==
    LET cap == DictGet(room_caps, r, Unbounded)
    IN  (IF cap = 0 THEN Unbounded ELSE cap) <= stud_count

\* fits(r) (line 179): (room_caps.get(r, 9999) or 9999) >= stud_count
Fits(r, stud_count) ==
    LET cap == DictGet(room_caps, r, Unbounded)
    IN  (IF cap = 0 THEN Unbounded ELSE cap) >= stud_count

\* PreferredTarget without the lecture test of line 183
PreferredTargetAnyType(task, slot, stud_count) ==
    IF task.teacher \in DOMAIN data.teacher_prefs
    THEN LET pref == data.teacher_prefs[task.teacher]
         IN  IF pref \notin occ_rooms[slot] /\ Fits(pref, stud_count) THEN pref ELSE None
    ELSE None

\* lines 181-184: the teacher's preferred room, for a task that is no lecture
PreferredTarget(task, slot, stud_count) ==
    IF task.type # "lecture" /\ task.teacher \in DOMAIN data.teacher_prefs
    THEN LET pref == data.teacher_prefs[task.teacher]
         IN  IF pref \notin occ_rooms[slot] /\ Fits(pref, stud_count) THEN pref ELSE None
    ELSE None

\* free after lines 188-190: the rooms not occupied in slot, ascending by capacity
FreeRooms(slot) ==
    LET notOccupied(r) == r \notin occ_rooms[slot]
        free == SelectSeq(room_names, notOccupied)
    IN  StableSort(free, [i \in DOMAIN free |-> <<DictGet(room_caps, free[i], Unbounded)>>])

\* lines 191-193: the first free room that fits
ScanTarget(slot, stud_count) ==
    LET free == FreeRooms(slot)
        fitting == {i \in DOMAIN free : Fits(free[i], stud_count)}
    IN  IF fitting = {} THEN None
        ELSE free[CHOOSE i \in fitting : \A j \in fitting : i <= j]

\* target when line 195 is reached for slot
Target(task, slot) ==
    LET stud_count == Enrollment(group_sizes, task.groups)
        pref == PreferredTarget(task, slot, stud_count)
    IN  IF pref # None THEN pref ELSE ScanTarget(slot, stud_count)

\* ChosenIndex with the last slot that yields a room instead of the first
ChosenIndexLast(task) ==
    LET avail == SortedAvail(task)
        ok == {i \in DOMAIN avail : Target(task, avail[i]) # None}
    IN  IF ok = {} THEN 0 ELSE CHOOSE i \in ok : \A j \in ok : i >= j

\* the position in the sorted avail of the slot where the loop of line 177
\* breaks, 0 when it ends without a placement
ChosenIndex(task) ==
    LET avail == SortedAvail(task)
        ok == {i \in DOMAIN avail : Target(task, avail[i]) # None}
    IN  IF ok = {} THEN 0 ELSE CHOOSE i \in ok : \A j \in ok : i <= j

\* Reason without the assignment of line 213
ReasonNotOverwritten(task) == NoCommonFreeTime

\* reason when the loop of line 177 has ended: line 175 sets it, and line 213
\* overwrites it once for every slot that was tried and gave no room
Reason(task) ==
    LET avail == SortedAvail(task)
        last == IF ChosenIndex(task) = 0 THEN Len(avail) ELSE ChosenIndex(task) - 1
    IN  IF last >= 1 THEN NoRoomOfCapacity ELSE NoCommonFreeTime

\* Occupy with the names assigned to the slot's set instead of added to it
OccupyReplacing(occ, slot, names) == [occ EXCEPT ![slot] = names]

\* occ[slot].add(name) for every name of names (lines 206-208)
Occupy(occ, slot, names) == [occ EXCEPT ![slot] = @ \cup names]

\* the entry appended at lines 199-203.  group is the string of line 201;
\* groups keeps the list it was joined from.  The "time" string of line 197
\* is not modelled.
Entry(task, slot, target) ==
    [slot |-> slot, day |-> slot_map[slot].day,
     teacher |-> task.teacher, group |-> Join(task.groups), groups |-> task.groups,
     subject |-> task.subject, room |-> target, type |-> task.type]

\* the diagnostic of line 216, as a record of the values it formats
Diagnostic(task, reason) ==
    [subject |-> task.subject, type |-> task.type,
     teacher |-> task.teacher, reason |-> reason]

\* slots.index(s) (line 219), zero-based
SlotIndex(s) == (CHOOSE i \in DOMAIN slots : slots[i] = s /\ \A j \in 1..(i - 1) : slots[j] # s) - 1

\* SortedSchedule with the sort of line 219 left out
SortedScheduleOmitted(sched) == sched

\* schedule after schedule.sort(key=...) (line 219)
SortedSchedule(sched) ==
    StableSort(sched, [i \in DOMAIN sched |-> <<SlotIndex(sched[i].slot)>>])

(***************************************************************************)
(* The requests of the model.  A request is a SessionData (lines 39-48;    *)
(* subjects is never read).  Requests is the union of families, each       *)
(* varying some fields around small fixed values of the others.            *)
(***************************************************************************)
Request(teachers, groups, rooms, assignments, prefs, busy, days, times) ==
    [teachers |-> teachers, groups |-> groups, rooms |-> rooms,
     assignments |-> assignments, teacher_prefs |-> prefs, teacher_busy |-> busy,
     days |-> days, times |-> times]

Group(name, size) == [name |-> name, size |-> size]

Room(name, capacity) == [name |-> name, capacity |-> capacity]

Assign(teacher, groups, count, type) ==
    [teacher |-> teacher, groups |-> groups, subject |-> "S", count |-> count, type |-> type]

\* the i-th assignment of a list teaches subject "S<i>"
Subjects == <<"S1", "S2", "S3">>

Numbered(assigns) == [i \in DOMAIN assigns |-> [assigns[i] EXCEPT !.subject = Subjects[i]]]

\* the empty dictionary
EmptyDict == <<>>

\* a dictionary with the single key k
Dict1(k, v) == [x \in {k} |-> v]

Prefix(s, n) == SubSeq(s, 1, n)

\* day lists and time lists: prefixes of AllDays and AllTimes
DayLists == {Prefix(AllDays, n) : n \in 0..MaxDays}

TimeLists == {Prefix(AllTimes, n) : n \in 0..MaxTimes}

\* Family "pairs": up to two assignments of teachers T1, T2 to groups G1, G2
\* (the first repeated once or twice, the second once) on every non-empty
\* grid, competing for one or two rooms, with or without a preferred room.
PairAssigns(counts) ==
    {Assign(t, g, c, ty) : t \in {"T1", "T2"}, g \in {<<"G1">>, <<"G2">>, <<"G1", "G2">>},
                           c \in counts, ty \in {"lecture", "seminar"}}

PairRequests ==
    {Request(<<"T1", "T2">>, <<Group("G1", 3), Group("G2", 5)>>, rs, Numbered(as), pr,
             EmptyDict, ds, tms) :
        rs \in {<<Room("R1", 4)>>, <<Room("R1", 8), Room("R2", 4)>>},
        as \in {<<>>} \cup {<<a>> : a \in PairAssigns({1, 2})}
                      \cup {<<a, b>> : a \in PairAssigns({1, 2}), b \in PairAssigns({1})},
        pr \in {EmptyDict, Dict1("T1", "R1")},
        ds \in DayLists \ {<<>>},
        tms \in TimeLists \ {<<>>}}

\* Family "single": one assignment on every non-empty grid, with preferred
\* rooms (declared or not), busy lists, rooms of capacity zero, a teacher T2
\* that data.teachers does not declare and a group G3 that data.groups does not.
SingleAssigns ==
    {Assign(t, g, c, ty) : t \in {"T1", "T2"}, g \in {<<"G1">>, <<"G2", "G3">>},
                           c \in 0..MaxCount, ty \in {"lecture", "seminar"}}

SingleRequests ==
    {Request(<<"T1">>, <<Group("G1", 3), Group("G2", 5)>>, rs, Numbered(<<a>>), pr, bs, ds, tms) :
        rs \in {<<>>, <<Room("R1", 4)>>, <<Room("R1", 0)>>, <<Room("R1", 0), Room("R2", 8)>>},
        a \in SingleAssigns,
        pr \in {EmptyDict, Dict1("T1", "R1"), Dict1("T1", "RX")},
        bs \in {EmptyDict, Dict1("T1", <<"Mon 09:00">>),
                [t \in {"T1", "T2"} |-> <<"Mon 09:00", "Mon 10:00", "Tue 09:00">>]},
        ds \in DayLists \ {<<>>},
        tms \in TimeLists \ {<<>>}}

\* Family "empty grid": one assignment on every grid without days or without times.
EmptyGrids == {g \in DayLists \X TimeLists : g[1] = <<>> \/ g[2] = <<>>}

EmptyGridRequests ==
    {Request(<<"T1">>, <<Group("G1", 3), Group("G2", 5)>>, <<Room("R1", 8)>>,
             Numbered(<<a>>), EmptyDict, EmptyDict, g[1], g[2]) :
        a \in SingleAssigns,
        g \in EmptyGrids}

\* Family "streams": one lecture or seminar assignment of three groups of
\* every size of SizeVals, or of no group, under every maximal room capacity.
SizeVals == {0, 3, 5, 6000, 10000}

StreamRequests ==
    {Request(<<"T1">>, <<Group("G1", s1), Group("G2", s2), Group("G3", s3)>>, rs,
             Numbered(<<Assign("T1", gs, c, ty)>>),
             EmptyDict, EmptyDict, <<"Mon">>, <<"09:00">>) :
        s1 \in SizeVals, s2 \in SizeVals, s3 \in SizeVals,
        rs \in {<<>>, <<Room("R1", 0)>>, <<Room("R1", 8)>>, <<Room("R1", 10), Room("R2", 0)>>},
        gs \in {<<"G1", "G2", "G3">>, <<>>},
        c \in 0..MaxCount,
        ty \in {"lecture", "seminar"}}

\* Family "gaps": one teacher on one day of MaxTimes + 2 times, busy in any
\* set of its slots, with one assignment repeated up to MaxCount + 1 times,
\* alone or beside a seminar of a second teacher, in one room.
GapTimes == Prefix(AllTimes, MaxTimes + 2)

GapBusyLists == {SelectSeq(SlotsOf(<<"Mon">>, GapTimes), LAMBDA s : s \in b) :
                    b \in SUBSET Range(SlotsOf(<<"Mon">>, GapTimes))}

GapRequests ==
    {Request(<<"T1", "T2">>, <<Group("G1", 3), Group("G2", 5)>>, <<Room("R1", 8)>>,
             Numbered(<<Assign("T1", gs, c, ty)>> \o more), EmptyDict, Dict1("T1", bs),
             <<"Mon">>, GapTimes) :
        gs \in {<<"G1">>, <<"G1", "G2">>},
        c \in 1..(MaxCount + 1),
        ty \in {"lecture", "seminar"},
        more \in {<<>>, <<Assign("T2", <<"G2">>, 1, "seminar")>>},
        bs \in GapBusyLists}

\* Family "contention": two teachers with one assignment each on one day,
\* one of them busy in one slot, competing for the room that holds group G2.
ContentionRequests ==
    {Request(<<"T1", "T2">>, <<Group("G1", 3), Group("G2", 5)>>, rs,
             Numbered(<<Assign("T1", <<"G2">>, c1, ty1), Assign("T2", <<"G1">>, c2, ty2)>>),
             EmptyDict, bs, <<"Mon">>, tms) :
        rs \in {<<Room("R1", 8)>>, <<Room("R1", 8), Room("R2", 4)>>},
        c1 \in 1..MaxCount, c2 \in 1..MaxCount,
        ty1 \in {"lecture", "seminar"}, ty2 \in {"lecture", "seminar"},
        bs \in {Dict1("T1", <<"Mon 09:00">>), Dict1("T2", <<"Mon 09:00">>),
                Dict1("T2", <<"Mon 10:00">>)},
        tms \in TimeLists \ {<<>>}}

\* Family "order": three assignments of either type, the third repeated, to
\* groups G1 and G2 of one size and both together.
OrderGroups == {<<"G1">>, <<"G2">>, <<"G1", "G2">>}

OrderRequests ==
    {Request(<<"T1", "T2">>, <<Group("G1", 3), Group("G2", 3)>>, <<Room("R1", 8)>>,
             Numbered(<<Assign("T1", g1, 1, ty1), Assign("T2", g2, 1, ty2),
                        Assign("T1", g3, c, ty3)>>),
             EmptyDict, EmptyDict, <<"Mon">>, Prefix(AllTimes, MaxTimes)) :
        g1 \in OrderGroups, g2 \in OrderGroups, g3 \in OrderGroups,
        ty1 \in {"lecture", "seminar"}, ty2 \in {"lecture", "seminar"},
        ty3 \in {"lecture", "seminar"}, c \in 1..MaxCount}

Requests ==
    PairRequests \cup SingleRequests \cup EmptyGridRequests \cup StreamRequests
        \cup GapRequests \cup ContentionRequests \cup OrderRequests

(***************************************************************************)
(* The solve.                                                              *)
(***************************************************************************)
Init ==
    /\ data \in Requests
    /\ pc = "prepare"
    /\ slots = <<>>
    /\ slot_map = EmptyDict
    /\ group_sizes = EmptyDict
    /\ room_caps = EmptyDict
    /\ room_names = <<>>
    /\ max_cap = 0
    /\ tasks = <<>>
    /\ assign_i = 1
    /\ streams = <<>>
    /\ schedule = <<>>
    /\ errors = <<>>
    /\ occ_teachers = EmptyDict
    /\ occ_groups = EmptyDict
    /\ occ_rooms = EmptyDict
    /\ teacher_daily = EmptyDict
    /\ task_i = 1
    /\ result = None

\* lines 58-69 when no slot was built: the error result
ReturnNoSlots ==
    /\ pc = "prepare"
    /\ SlotsOf(data.days, data.times) = <<>>
    /\ result' = [status |-> "error", schedule |-> <<>>, errors |-> <<>>]
    /\ pc' = "returned"
    /\ UNCHANGED <<data, slots, slot_map, group_sizes, room_caps, room_names, max_cap,
                   tasks, assign_i, streams, schedule, errors, occ_teachers,
                   occ_groups, occ_rooms, teacher_daily, task_i>>

\* lines 58-82 when there is a slot
Prepare ==
    /\ pc = "prepare"
    /\ SlotsOf(data.days, data.times) # <<>>
    /\ slots' = SlotsOf(data.days, data.times)
    /\ slot_map' = SlotMapOf(data.days, data.times)
    /\ group_sizes' = GroupSizesOf(data.groups)
    /\ room_caps' = RoomCapsOf(data.rooms)
    /\ room_names' = RoomNamesOf(data.rooms)
    /\ max_cap' = MaxCapOf(data.rooms)
    /\ tasks' = <<>>
    /\ pc' = "expand"
    /\ UNCHANGED <<data, assign_i, streams, schedule, errors, occ_teachers,
                   occ_groups, occ_rooms, teacher_daily, task_i, result>>

\* one iteration of the loop of line 85 on a seminar assignment (lines 88-97)
ExpandSeminar ==
    /\ pc = "expand"
    /\ assign_i <= Len(data.assignments)
    /\ data.assignments[assign_i].type = "seminar"
    /\ tasks' = tasks \o SeminarTasks(data.assignments[assign_i])
    /\ assign_i' = assign_i + 1
    /\ UNCHANGED <<data, pc, slots, slot_map, group_sizes, room_caps, room_names,
                   max_cap, streams, schedule, errors, occ_teachers, occ_groups,
                   occ_rooms, teacher_daily, task_i, result>>

\* one iteration of the loop of line 85 on any other assignment (lines 98-133)
ExpandLecture ==
    /\ pc = "expand"
    /\ assign_i <= Len(data.assignments)
    /\ data.assignments[assign_i].type # "seminar"
    /\ streams' = StreamsOf(data.assignments[assign_i].groups, group_sizes, max_cap)
    /\ tasks' = tasks \o LectureTasks(data.assignments[assign_i], streams')
    /\ assign_i' = assign_i + 1
    /\ UNCHANGED <<data, pc, slots, slot_map, group_sizes, room_caps, room_names,
                   max_cap, schedule, errors, occ_teachers, occ_groups,
                   occ_rooms, teacher_daily, task_i, result>>

\* lines 136-145, after the last assignment
SortTasks ==
    /\ pc = "expand"
    /\ assign_i > Len(data.assignments)
    /\ tasks' = SortedTasks(group_sizes, tasks)
    /\ schedule' = <<>>
    /\ errors' = <<>>
    /\ occ_teachers' = [s \in Range(slots) |-> {}]
    /\ occ_groups' = [s \in Range(slots) |-> {}]
    /\ occ_rooms' = [s \in Range(slots) |-> {}]
    /\ teacher_daily' = [t \in Range(data.teachers) |-> [d \in Range(data.days) |-> {}]]
    /\ pc' = "place"
    /\ UNCHANGED <<data, slots, slot_map, group_sizes, room_caps, room_names,
                   max_cap, assign_i, streams, task_i, result>>

\* one iteration of the loop of line 148 that commits the task (lines 195-211)
PlaceTask ==
    /\ pc = "place"
    /\ task_i <= Len(tasks)
    /\ ~ScoreRaises(tasks[task_i])
    /\ ChosenIndex(tasks[task_i]) # 0
    /\ LET task == tasks[task_i]
           slot == SortedAvail(task)[ChosenIndex(task)]
           target == Target(task, slot)
           info == slot_map[slot]
       IN  /\ schedule' = Append(schedule, Entry(task, slot, target))
           /\ occ_teachers' = Occupy(occ_teachers, slot, {task.teacher})
           /\ occ_rooms' = Occupy(occ_rooms, slot, {target})
           /\ occ_groups' = Occupy(occ_groups, slot, Range(task.groups))
           /\ teacher_daily' = [teacher_daily EXCEPT
                                   ![task.teacher][info.day] = @ \cup {info.time_idx}]
    /\ task_i' = task_i + 1
    /\ UNCHANGED <<data, pc, slots, slot_map, group_sizes, room_caps, room_names,
                   max_cap, tasks, assign_i, streams, errors, result>>

\* one iteration of the loop of line 148 that leaves the task unplaced
\* (lines 174-177 and 212-216)
RejectTask ==
    /\ pc = "place"
    /\ task_i <= Len(tasks)
    /\ ~ScoreRaises(tasks[task_i])
    /\ ChosenIndex(tasks[task_i]) = 0
    /\ errors' = Append(errors, Diagnostic(tasks[task_i], Reason(tasks[task_i])))
    /\ task_i' = task_i + 1
    /\ UNCHANGED <<data, pc, slots, slot_map, group_sizes, room_caps, room_names,
                   max_cap, tasks, assign_i, streams, schedule, occ_teachers,
                   occ_groups, occ_rooms, teacher_daily, result>>

\* the iteration of the loop of line 148 in which score raises KeyError
\* (lines 156 and 172): the exception leaves generate_schedule, nothing is returned
RaiseKeyError ==
    /\ pc = "place"
    /\ task_i <= Len(tasks)
    /\ ScoreRaises(tasks[task_i])
    /\ pc' = "raised"
    /\ UNCHANGED <<data, slots, slot_map, group_sizes, room_caps, room_names,
                   max_cap, tasks, assign_i, streams, schedule, errors, occ_teachers,
                   occ_groups, occ_rooms, teacher_daily, task_i, result>>

\* lines 219-220, after the last task
Report ==
    /\ pc = "place"
    /\ task_i > Len(tasks)
    /\ schedule' = SortedSchedule(schedule)
    /\ result' = [status |-> "success", schedule |-> schedule', errors |-> errors]
    /\ pc' = "returned"
    /\ UNCHANGED <<data, slots, slot_map, group_sizes, room_caps, room_names,
                   max_cap, tasks, assign_i, streams, errors, occ_teachers,
                   occ_groups, occ_rooms, teacher_daily, task_i>>

Next ==
    \/ ReturnNoSlots
    \/ Prepare
    \/ ExpandSeminar
    \/ ExpandLecture
    \/ SortTasks
    \/ PlaceTask
    \/ RejectTask
    \/ RaiseKeyError
    \/ Report

Spec == Init /\ [][Next]_vars

(***************************************************************************)
(* Properties.                                                             *)
(***************************************************************************)
\* the solve has ended: the function returned or an exception left it
Ended == pc \in {"returned", "raised"}

\* the schedules to judge: the one being built and, after the return, the one returned
Schedules == {schedule} \cup (IF pc = "returned" THEN {result.schedule} ELSE {})

\* the size a request declares for a group, 0 for a group it does not declare
DeclaredSize(g) ==
    IF \E i \in DOMAIN data.groups : data.groups[i].name = g
    THEN (CHOOSE x \in Range(data.groups) : x.name = g).size
    ELSE 0

\* the number of students of an entry
EntrySize(e) == SumSeq([i \in DOMAIN e.groups |-> DeclaredSize(e.groups[i])])

NoDoubleBooking(sched) ==
    \A i \in DOMAIN sched : \A j \in DOMAIN sched :
        (i # j /\ sched[i].slot = sched[j].slot) =>
            /\ sched[i].teacher # sched[j].teacher
            /\ sched[i].room # sched[j].room
            /\ Range(sched[i].groups) \cap Range(sched[j].groups) = {}

\* C1: in the schedule, after every placement step and in the returned
\* result, no two entries of one slot share a teacher, a group or a room.
C1_NoDoubleBooking == \A sched \in Schedules : NoDoubleBooking(sched)

\* C1 witness: a returned schedule in which two entries share a slot and two
\* entries of one teacher lie in different slots.
C1_Witness ==
    /\ pc = "returned" /\ result.status = "success"
    /\ \E i, j \in DOMAIN result.schedule :
          i # j /\ result.schedule[i].slot = result.schedule[j].slot
    /\ \E i, j \in DOMAIN result.schedule :
          /\ result.schedule[i].slot # result.schedule[j].slot
          /\ result.schedule[i].teacher = result.schedule[j].teacher

\* C2: for every entry, the capacity of its room is at least the sum of the
\* sizes of its groups; a room of capacity zero and a room the request does
\* not declare count as unbounded.
C2_CapacitySafety ==
    \A sched \in Schedules : \A k \in DOMAIN sched :
        \A i \in DOMAIN data.rooms :
            (data.rooms[i].name = sched[k].room /\ data.rooms[i].capacity # 0)
                => data.rooms[i].capacity >= EntrySize(sched[k])

\* C2 witness: a returned schedule with an entry in its teacher's preferred
\* room and an entry in a room of the scan, both rooms of bounded capacity,
\* and a task left unplaced for want of capacity.
C2_Witness ==
    /\ pc = "returned" /\ result.status = "success"
    /\ \E e \in Range(result.schedule) :
          /\ e.type = "seminar" /\ EntrySize(e) > 0
          /\ e.teacher \in DOMAIN data.teacher_prefs
          /\ e.room = data.teacher_prefs[e.teacher]
          /\ \E r \in Range(data.rooms) : r.name = e.room /\ r.capacity > 0
    /\ \E e \in Range(result.schedule) :
          /\ EntrySize(e) > 0
          /\ e.teacher \notin DOMAIN data.teacher_prefs
          /\ \E r \in Range(data.rooms) : r.name = e.room /\ r.capacity > 0
    /\ \E d \in Range(result.errors) : d.reason = NoRoomOfCapacity

\* C3: no entry's slot is in the busy list of the entry's teacher.
C3_AvailabilityRespected ==
    \A sched \in Schedules : \A k \in DOMAIN sched :
        sched[k].teacher \in DOMAIN data.teacher_busy
            => sched[k].slot \notin Range(data.teacher_busy[sched[k].teacher])

\* C3 witness: a returned entry of a teacher whose busy list names another
\* slot of the grid.
C3_Witness ==
    /\ pc = "returned" /\ result.status = "success"
    /\ \E e \in Range(result.schedule) :
          /\ e.teacher \in DOMAIN data.teacher_busy
          /\ Range(data.teacher_busy[e.teacher]) \cap Range(slots) # {}

\* C4: for a request with at least one slot, the solve ends with
\* len(schedule) + len(errors) equal to the number of expanded tasks.
C4_Conservation ==
    (Ended /\ data.days # <<>> /\ data.times # <<>>) =>
        /\ pc = "returned"
        /\ Len(result.schedule) + Len(result.errors) = Len(tasks)

\* C5: with no day or no time the solve returns status "error" with an empty
\* schedule and no diagnostics, having expanded and placed nothing; in every
\* other case it returns status "success".
C5_Status ==
    Ended =>
        IF data.days = <<>> \/ data.times = <<>>
        THEN /\ pc = "returned"
             /\ result = [status |-> "error", schedule |-> <<>>, errors |-> <<>>]
             /\ tasks = <<>> /\ schedule = <<>> /\ errors = <<>>
        ELSE /\ pc = "returned"
             /\ result.status = "success"

\* C6: for a request with at least one slot no task is fatal, whatever its
\* teacher and groups: the solve raises nothing, and when it ends every task
\* has been processed.
C6_NeverFatal ==
    slots # <<>> =>
        /\ pc # "raised"
        /\ Ended => task_i = Len(tasks) + 1

\* the slot is no candidate for the task: the teacher or one of the groups is
\* occupied in it, or the teacher's busy list names it
Blocked(task, slot) ==
    \/ task.teacher \in occ_teachers[slot]
    \/ Range(task.groups) \cap occ_groups[slot] # {}
    \/ /\ task.teacher \in DOMAIN data.teacher_busy
       /\ \E i \in DOMAIN data.teacher_busy[task.teacher] :
             data.teacher_busy[task.teacher][i] = slot

\* C7: the step that leaves a task unplaced records one diagnostic; its
\* reason is "no common free time" exactly when no slot was a candidate, and
\* the capacity reason exactly when some slot was a candidate and no
\* candidate yielded a room.
C7_Reasons ==
    [][RejectTask =>
          LET task == tasks[task_i]
              d == errors'[Len(errors')]
              candidates == {s \in Range(slots) : ~Blocked(task, s)}
          IN  /\ Len(errors') = Len(errors) + 1
              /\ d.teacher = task.teacher /\ d.subject = task.subject
              /\ d.reason = NoCommonFreeTime <=> candidates = {}
              /\ d.reason = NoRoomOfCapacity <=>
                    /\ candidates # {}
                    /\ \A s \in candidates : Target(task, s) = None]_vars

\* C7 witness: a returned result with a diagnostic of each reason.
C7_Witness ==
    /\ pc = "returned" /\ result.status = "success"
    /\ \E d \in Range(result.errors) : d.reason = NoCommonFreeTime
    /\ \E d \in Range(result.errors) : d.reason = NoRoomOfCapacity

\* the tasks expanded from the assignment of that subject (Numbered gives
\* every assignment of a request its own subject)
TasksOf(subject) == {k \in DOMAIN tasks : tasks[k].subject = subject}

\* C8: once a seminar assignment of n groups and count c is expanded, tasks
\* holds exactly n*c tasks of it, count for each of its groups, each a seminar
\* of that group alone; every seminar entry lists exactly one group.
C8_SeminarsNeverMerged ==
    /\ \A i \in DOMAIN data.assignments :
          LET a == data.assignments[i] IN
          (i < assign_i /\ a.type = "seminar") =>
              /\ Cardinality(TasksOf(a.subject)) = Len(a.groups) * a.count
              /\ \A k \in TasksOf(a.subject) :
                    /\ tasks[k].type = "seminar"
                    /\ Len(tasks[k].groups) = 1
              /\ \A j \in DOMAIN a.groups :
                    Cardinality({k \in TasksOf(a.subject) :
                                    tasks[k].groups = <<a.groups[j]>>}) = a.count
    /\ \A sched \in Schedules : \A k \in DOMAIN sched :
          sched[k].type = "seminar" =>
              /\ Len(sched[k].groups) = 1
              /\ sched[k].group = sched[k].groups[1]

\* C8 witness: a returned schedule with two seminar entries of different
\* groups of one assignment that has several groups and count 2.
C8_Witness ==
    /\ pc = "returned" /\ result.status = "success"
    /\ \E a \in Range(data.assignments) :
          /\ a.type = "seminar" /\ Len(a.groups) >= 2 /\ a.count = 2
          /\ \E e1, e2 \in Range(result.schedule) :
                /\ e1.subject = a.subject /\ e2.subject = a.subject
                /\ e1.type = "seminar" /\ e2.type = "seminar"
                /\ e1.group # e2.group

\* a stream, or the group list of a lecture task, within the bound of C9
StreamBounded(st) ==
    /\ st # <<>>
    /\ \/ SumSeq([i \in DOMAIN st |-> DeclaredSize(st[i])]) <= max_cap
       \/ Len(st) = 1 /\ DeclaredSize(st[1]) > max_cap

\* C9: every stream built from a lecture assignment, and the group list of
\* every lecture task, is non-empty and either totals at most max_cap or is a
\* single group larger than max_cap.  max_cap is the value of lines 77-80,
\* never above the maxRoomCapacity of the specification.
C9_StreamsBounded ==
    /\ \A i \in DOMAIN streams : StreamBounded(streams[i])
    /\ \A k \in DOMAIN tasks : tasks[k].type = "lecture" => StreamBounded(tasks[k].groups)

\* C9 witness: the streams of one assignment hold a stream of several groups
\* of positive size and a stream of one group larger than max_cap.
C9_Witness ==
    /\ \E i \in DOMAIN streams :
          /\ Len(streams[i]) >= 2
          /\ \A j \in DOMAIN streams[i] : DeclaredSize(streams[i][j]) > 0
    /\ \E i \in DOMAIN streams :
          Len(streams[i]) = 1 /\ DeclaredSize(streams[i][1]) > max_cap
    /\ \E k \in DOMAIN tasks : tasks[k].type = "lecture" /\ Len(tasks[k].groups) >= 2

\* C10: when the request has no rooms, or its largest room capacity is zero,
\* a lecture assignment with groups expands into one stream of all its
\* groups, hence into exactly count tasks each holding all its groups.
C10_UnboundedMerges ==
    (/\ pc = "expand" /\ assign_i > 1
     /\ data.assignments[assign_i - 1].type = "lecture"
     /\ data.assignments[assign_i - 1].groups # <<>>
     /\ \A i \in DOMAIN data.rooms : data.rooms[i].capacity = 0) =>
        LET a == data.assignments[assign_i - 1] IN
        /\ Len(streams) = 1
        /\ Range(streams[1]) = Range(a.groups)
        /\ Len(streams[1]) = Len(a.groups)
        /\ Cardinality(TasksOf(a.subject)) = a.count
        /\ \A k \in TasksOf(a.subject) : tasks[k].groups = streams[1]

\* the position of a slot in the slot lattice: all times of day 1, then all
\* times of day 2, ...
LatticePos(s) ==
    CHOOSE k \in 1..(Len(data.days) * Len(data.times)) :
        \E di \in DOMAIN data.days : \E ti \in DOMAIN data.times :
            /\ k = (di - 1) * Len(data.times) + ti
            /\ s = SlotName(data.days[di], data.times[ti])

\* the position in tasks of the one task an entry can come from, 0 when
\* several tasks or none match
TaskIndexOf(e) ==
    LET match == {k \in DOMAIN tasks :
                     /\ tasks[k].teacher = e.teacher /\ tasks[k].groups = e.groups
                     /\ tasks[k].subject = e.subject /\ tasks[k].type = e.type}
    IN  IF Cardinality(match) = 1 THEN CHOOSE k \in match : TRUE ELSE 0

\* C11: the returned schedule is in the canonical slot order: an entry never
\* precedes an entry of an earlier slot of the lattice.
C11_ScheduleSorted ==
    (pc = "returned" /\ result.status = "success") =>
        \A i \in DOMAIN result.schedule : \A j \in DOMAIN result.schedule :
            i < j => LatticePos(result.schedule[i].slot) <= LatticePos(result.schedule[j].slot)

\* C11 witness: a returned schedule in which an entry of a task attempted
\* later stands before an entry of a task attempted earlier, in an earlier slot.
C11_Witness ==
    /\ pc = "returned" /\ result.status = "success"
    /\ \E i \in DOMAIN result.schedule : \E j \in DOMAIN result.schedule :
          /\ i < j
          /\ LatticePos(result.schedule[i].slot) < LatticePos(result.schedule[j].slot)
          /\ TaskIndexOf(result.schedule[j]) # 0
          /\ TaskIndexOf(result.schedule[i]) > TaskIndexOf(result.schedule[j])

\* the position in data.assignments of the lecture assignment expanded last,
\* whose streams the variable streams holds; 0 before the first one
LastLecture ==
    LET done == {i \in DOMAIN data.assignments :
                    i < assign_i /\ data.assignments[i].type # "seminar"}
    IN  IF done = {} \/ pc = "prepare" THEN 0
        ELSE CHOOSE i \in done : \A j \in done : j <= i

\* the total size of a stream
StreamSize(st) == SumSeq([i \in DOMAIN st |-> DeclaredSize(st[i])])

\* the place of the i-th group of a list when the groups are taken in
\* descending size order, groups of equal size in list order
GroupRank(groups, i) ==
    Cardinality({j \in DOMAIN groups : DeclaredSize(groups[j]) > DeclaredSize(groups[i])})
    + Cardinality({j \in 1..(i - 1) : DeclaredSize(groups[j]) = DeclaredSize(groups[i])}) + 1

\* the place of a group name in that order
RankOf(groups, g) == GroupRank(groups, CHOOSE i \in DOMAIN groups : groups[i] = g)

\* C13 as claimed: the streams are those of first-fit-decreasing packing with
\* bin size max_cap: a group that is not larger than max_cap lies in stream k
\* only if it fitted in no stream opened earlier, given the groups that
\* stream held when the group was taken.
C13_FirstFitDecreasing ==
    LastLecture # 0 =>
        LET groups == data.assignments[LastLecture].groups IN
        \A k \in DOMAIN streams : \A p \in DOMAIN streams[k] : \A j \in 1..(k - 1) :
            LET g == streams[k][p]
                held == SelectSeq(streams[j], LAMBDA h : RankOf(groups, h) < RankOf(groups, g))
            IN  DeclaredSize(g) <= max_cap => StreamSize(held) + DeclaredSize(g) > max_cap

\* C13 as amended: the streams are those of next-fit-decreasing packing with
\* bin size max_cap: read in a row they are the groups in descending size
\* order; a group larger than max_cap is a stream of its own; every other
\* stream totals at most max_cap, and the stream after it was opened because
\* its first group did not fit in it.
C13_NextFitDecreasing ==
    LastLecture # 0 =>
        LET groups == data.assignments[LastLecture].groups
            row == Flatten(streams)
            big(k) == \E p \in DOMAIN streams[k] : DeclaredSize(streams[k][p]) > max_cap
        IN  /\ Len(row) = Len(groups)
            /\ \A i \in DOMAIN groups : row[GroupRank(groups, i)] = groups[i]
            /\ \A k \in DOMAIN streams :
                  /\ streams[k] # <<>>
                  /\ big(k) => Len(streams[k]) = 1
                  /\ ~big(k) => StreamSize(streams[k]) <= max_cap
                  /\ (k > 1 /\ ~big(k) /\ ~big(k - 1)) =>
                        StreamSize(streams[k - 1]) + DeclaredSize(streams[k][1]) > max_cap

\* C13 witness: the lecture tasks are expanded from streams in which a group
\* lies in a later stream although an earlier stream had room for it.
C13_Witness ==
    /\ LastLecture # 0
    /\ \E t \in Range(tasks) : t.type = "lecture" /\ Len(t.groups) >= 2
    /\ \E k \in DOMAIN streams : \E p \in DOMAIN streams[k] : \E j \in 1..(k - 1) :
          /\ DeclaredSize(streams[k][p]) > 0
          /\ StreamSize(streams[j]) + DeclaredSize(streams[k][p]) <= max_cap

\* the key of C14: (isLecture, groupCount, totalEnrollment)
OrderKey(task) ==
    <<IF task.type = "lecture" THEN 1 ELSE 0, Len(task.groups),
      SumSeq([i \in DOMAIN task.groups |-> DeclaredSize(task.groups[i])])>>

\* x >= y lexicographically, for keys of three numbers
KeyGeq(x, y) ==
    \/ x[1] > y[1]
    \/ x[1] = y[1] /\ x[2] > y[2]
    \/ x[1] = y[1] /\ x[2] = y[2] /\ x[3] >= y[3]

\* C14: the sort puts the tasks created so far in descending order of the
\* key, tasks of equal key keeping their order of creation (so lectures come
\* before seminars); from then on the list is fixed and every step attempts
\* the task at the next position of it.
C14_TaskOrder ==
    [][/\ SortTasks =>
             /\ Len(tasks') = Len(tasks)
             /\ \A a \in DOMAIN tasks' : \A b \in DOMAIN tasks' :
                   a < b => /\ KeyGeq(OrderKey(tasks'[a]), OrderKey(tasks'[b]))
                            /\ (tasks'[a].type = "lecture" \/ tasks'[b].type # "lecture")
             /\ \A k \in {OrderKey(t) : t \in Range(tasks)} :
                   SelectSeq(tasks', LAMBDA t : OrderKey(t) = k)
                       = SelectSeq(tasks, LAMBDA t : OrderKey(t) = k)
             /\ task_i' = 1
       /\ pc = "place" => tasks' = tasks
       /\ PlaceTask =>
             LET e == schedule'[Len(schedule')]
             IN  /\ e.subject = tasks[task_i].subject /\ e.groups = tasks[task_i].groups
                 /\ e.type = tasks[task_i].type
                 /\ task_i' = task_i + 1
       /\ RejectTask =>
             /\ errors'[Len(errors')].subject = tasks[task_i].subject
             /\ task_i' = task_i + 1]_vars

\* C14 witness: every task has been attempted, a lecture ahead of a seminar of
\* an assignment listed before the lecture's, and two tasks of equal key and
\* different subjects in the order of their assignments, a task of a smaller
\* key created ahead of both.
C14_Witness ==
    /\ pc = "place" /\ task_i = Len(tasks) + 1
    /\ \E a, b \in DOMAIN tasks :
          /\ a < b /\ tasks[a].type = "lecture" /\ tasks[b].type = "seminar"
          /\ tasks[a].subject = "S2" /\ tasks[b].subject = "S1"
    /\ \E a, b \in DOMAIN tasks :
          /\ a < b /\ OrderKey(tasks[a]) = OrderKey(tasks[b])
          /\ tasks[a].subject = "S2" /\ tasks[b].subject = "S3"
          /\ \E c \in DOMAIN tasks : c > b /\ tasks[c].subject = "S1"

\* the time index and the day index of a slot, zero-based
TimeIdxOf(s) == (LatticePos(s) - 1) % Len(data.times)

DayIdxOf(s) == (LatticePos(s) - 1) \div Len(data.times)

\* the entries committed before the k-th
Prior(k) == SubSeq(schedule, 1, k - 1)

\* with the entries of prior committed, slot s is a candidate for entry e:
\* its teacher and its groups are free in s and the teacher's busy list does
\* not name s
CandidateFor(prior, e, s) ==
    /\ \A x \in Range(prior) :
          x.slot = s => /\ x.teacher # e.teacher
                        /\ Range(x.groups) \cap Range(e.groups) = {}
    /\ ~(/\ e.teacher \in DOMAIN data.teacher_busy
         /\ s \in Range(data.teacher_busy[e.teacher]))

\* the score of C15 for slot s, against the time indices the teacher of e
\* uses on the day of s in prior
GapScore(prior, e, s) ==
    LET used == {TimeIdxOf(x.slot) : x \in {y \in Range(prior) :
                     y.teacher = e.teacher /\ DayIdxOf(y.slot) = DayIdxOf(s)}}
        dist(u) == IF u < TimeIdxOf(s) THEN TimeIdxOf(s) - u ELSE u - TimeIdxOf(s)
    IN  IF used = {} THEN 10
        ELSE IF \E u \in used : dist(u) = 1 THEN 100
        ELSE IF \E u \in used : dist(u) = 2 THEN -50
        ELSE 0

\* slot s comes before slot c in the order of C15
BetterSlot(prior, e, s, c) ==
    \/ GapScore(prior, e, s) > GapScore(prior, e, c)
    \/ GapScore(prior, e, s) = GapScore(prior, e, c) /\ LatticePos(s) < LatticePos(c)

\* with the entries of prior committed, a configured room is free in s and
\* covers the enrollment of e, a zero capacity counting as unbounded
RoomFor(prior, e, s) ==
    \E r \in Range(data.rooms) :
        /\ \A x \in Range(prior) : x.slot = s => x.room # r.name
        /\ r.capacity = 0 \/ r.capacity >= EntrySize(e)

\* C15: every entry lies in a slot that was a candidate when it was
\* committed, and no candidate slot of a higher score, or of the same score
\* and earlier in the grid, had a free room covering the entry's enrollment.
C15_BestCandidate ==
    pc = "place" =>
        \A k \in DOMAIN schedule :
            /\ CandidateFor(Prior(k), schedule[k], schedule[k].slot)
            /\ \A s \in Range(slots) :
                  (/\ CandidateFor(Prior(k), schedule[k], s)
                   /\ BetterSlot(Prior(k), schedule[k], s, schedule[k].slot))
                      => ~RoomFor(Prior(k), schedule[k], s)

\* C15 witness: an entry committed at distance three (score 0) from the
\* teacher's other class of the day while an earlier candidate slot at
\* distance two (score -50) had a free room, and an entry for which a better
\* candidate slot was passed over for want of a room.
C15_Witness ==
    /\ pc = "place" /\ task_i = Len(tasks) + 1
    /\ \E k \in DOMAIN schedule : \E s \in Range(slots) :
          /\ GapScore(Prior(k), schedule[k], schedule[k].slot) = 0
          /\ CandidateFor(Prior(k), schedule[k], s)
          /\ GapScore(Prior(k), schedule[k], s) = -50
          /\ LatticePos(s) < LatticePos(schedule[k].slot)
          /\ RoomFor(Prior(k), schedule[k], s)
    /\ \E k \in DOMAIN schedule : \E s \in Range(slots) :
          /\ CandidateFor(Prior(k), schedule[k], s)
          /\ BetterSlot(Prior(k), schedule[k], s, schedule[k].slot)

\* the configured room of that name
RoomNamed(name) == CHOOSE r \in Range(data.rooms) : r.name = name

\* room r is free in slot s with the entries of prior committed
FreeIn(prior, r, s) == \A x \in Range(prior) : x.slot = s => x.room # r

\* the capacity covers the size, a zero capacity counting as unbounded
Covers(capacity, size) == capacity = 0 \/ capacity >= size

\* the preferred-room rule applies to entry e: it is no lecture and its
\* teacher's preferred room is free in its slot and covers its enrollment (a
\* room the request does not configure has no capacity to fall short)
PrefApplies(prior, e) ==
    /\ e.type # "lecture"
    /\ e.teacher \in DOMAIN data.teacher_prefs
    /\ FreeIn(prior, data.teacher_prefs[e.teacher], e.slot)
    /\ \A r \in Range(data.rooms) :
          r.name = data.teacher_prefs[e.teacher] => Covers(r.capacity, EntrySize(e))

\* capacity a is strictly smaller than capacity b, zero counting as unbounded
SmallerCapacity(a, b) == a # 0 /\ (b = 0 \/ a < b)

\* C16: an entry placed by the room scan has the smallest sufficient free
\* room: no other configured room free in its slot when it was committed
\* covers its enrollment with a strictly smaller capacity, zero counting as
\* unbounded.
C16_SmallestSufficientRoom ==
    pc = "place" =>
        \A k \in DOMAIN schedule :
            LET e == schedule[k] IN
            ~PrefApplies(Prior(k), e) =>
                /\ \E r \in Range(data.rooms) : r.name = e.room
                /\ \A r \in Range(data.rooms) :
                      ~(/\ r.name # e.room
                        /\ FreeIn(Prior(k), r.name, e.slot)
                        /\ Covers(r.capacity, EntrySize(e))
                        /\ SmallerCapacity(r.capacity, RoomNamed(e.room).capacity))

\* the preferred room of the teacher of entry e is configured, free in the
\* slot of e with the entries of prior committed, and covers its enrollment
PrefAvailable(prior, e) ==
    /\ e.teacher \in DOMAIN data.teacher_prefs
    /\ FreeIn(prior, data.teacher_prefs[e.teacher], e.slot)
    /\ \E r \in Range(data.rooms) :
          r.name = data.teacher_prefs[e.teacher] /\ Covers(r.capacity, EntrySize(e))

\* room is the choice of the ascending-capacity scan for entry e: the first,
\* by capacity and then by place in the rooms list, of the configured rooms
\* that are free in the slot of e and cover its enrollment
ScanChoice(prior, e, room) ==
    LET ok(i) == /\ FreeIn(prior, data.rooms[i].name, e.slot)
                 /\ Covers(data.rooms[i].capacity, EntrySize(e))
    IN  \E i \in DOMAIN data.rooms :
            /\ data.rooms[i].name = room /\ ok(i)
            /\ \A j \in DOMAIN data.rooms :
                  ok(j) => \/ data.rooms[i].capacity < data.rooms[j].capacity
                           \/ data.rooms[i].capacity = data.rooms[j].capacity /\ i <= j

\* C17: an entry that is no lecture and whose teacher's preferred room was
\* free and covering when it was committed is in that room; a lecture entry
\* is in the room of the ascending-capacity scan whatever its teacher prefers.
C17_PreferredRoom ==
    pc = "place" =>
        \A k \in DOMAIN schedule :
            LET e == schedule[k] IN
            /\ (e.type # "lecture" /\ PrefAvailable(Prior(k), e))
                  => e.room = data.teacher_prefs[e.teacher]
            /\ e.type = "lecture" => ScanChoice(Prior(k), e, e.room)

\* C17 witness: a seminar entry in its teacher's preferred room although the
\* scan would have chosen a smaller sufficient room, and a lecture entry of
\* that teacher in the room of the scan although the preferred room was free
\* and covering.
C17_Witness ==
    /\ pc = "place" /\ task_i = Len(tasks) + 1
    /\ \E k \in DOMAIN schedule :
          /\ schedule[k].type = "seminar" /\ PrefAvailable(Prior(k), schedule[k])
          /\ schedule[k].room = data.teacher_prefs[schedule[k].teacher]
          /\ ~ScanChoice(Prior(k), schedule[k], schedule[k].room)
    /\ \E k \in DOMAIN schedule :
          /\ schedule[k].type = "lecture" /\ PrefAvailable(Prior(k), schedule[k])
          /\ schedule[k].room # data.teacher_prefs[schedule[k].teacher]

\* the number of times entry e occurs in a schedule
Occurrences(sched, e) == Cardinality({i \in DOMAIN sched : sched[i] = e})

\* a is a prefix of b
IsPrefix(a, b) == Len(a) <= Len(b) /\ SubSeq(b, 1, Len(a)) = a

\* C18: in every step of the placement phase the busy teachers, groups and
\* rooms of every slot and the used time indices of every teacher and day
\* keep their elements; a step that processes a task keeps the committed
\* entries and at most appends one; the final sort keeps every entry as
\* committed; and the step that leaves a task unplaced changes neither the
\* occupancy nor the schedule.
C18_OccupancyGrows ==
    [][pc = "place" =>
          /\ \A s \in Range(slots) :
                /\ occ_teachers[s] \subseteq occ_teachers'[s]
                /\ occ_groups[s] \subseteq occ_groups'[s]
                /\ occ_rooms[s] \subseteq occ_rooms'[s]
          /\ \A t \in DOMAIN teacher_daily : \A d \in DOMAIN teacher_daily[t] :
                teacher_daily[t][d] \subseteq teacher_daily'[t][d]
          /\ pc' # "returned" => IsPrefix(schedule, schedule')
          /\ pc' = "returned" =>
                /\ Len(result'.schedule) = Len(schedule)
                /\ \A e \in Range(schedule) :
                      Occurrences(result'.schedule, e) = Occurrences(schedule, e)
          /\ RejectTask =>
                UNCHANGED <<occ_teachers, occ_groups, occ_rooms, teacher_daily, schedule>>
      ]_vars

\* C18 witness: a solve returned after a slot came to hold two teachers and
\* two rooms, a teacher came to use two times of one day, three entries were
\* committed and a task was left unplaced.
C18_Witness ==
    /\ pc = "returned" /\ result.status = "success"
    /\ \E s \in Range(slots) :
          Cardinality(occ_teachers[s]) >= 2 /\ Cardinality(occ_rooms[s]) >= 2
    /\ \E t \in DOMAIN teacher_daily : \E d \in DOMAIN teacher_daily[t] :
          Cardinality(teacher_daily[t][d]) >= 2
    /\ result.errors # <<>>
    /\ Len(result.schedule) >= 3

\* a request of the family "contention": T1 teaches G2 and T2 teaches G1,
\* one seminar each, in the one room R1 on a day of two times; T2 is busy at
\* the second
ContendedRequest ==
    Request(<<"T1", "T2">>, <<Group("G1", 3), Group("G2", 5)>>, <<Room("R1", 8)>>,
            Numbered(<<Assign("T1", <<"G2">>, 1, "seminar"),
                       Assign("T2", <<"G1">>, 1, "seminar")>>),
            EmptyDict, Dict1("T2", <<"Mon 10:00">>), <<"Mon">>, <<"09:00", "10:00">>)

\* plan gives every task a slot and a configured room within every
\* availability, capacity and conflict constraint
ValidPlan(plan) ==
    /\ \A k \in DOMAIN tasks :
          /\ ~(/\ tasks[k].teacher \in DOMAIN data.teacher_busy
               /\ plan[k][1] \in Range(data.teacher_busy[tasks[k].teacher]))
          /\ Covers(RoomNamed(plan[k][2]).capacity,
                    SumSeq([i \in DOMAIN tasks[k].groups |-> DeclaredSize(tasks[k].groups[i])]))
    /\ \A k \in DOMAIN tasks : \A l \in DOMAIN tasks :
          (k # l /\ plan[k][1] = plan[l][1]) =>
              /\ tasks[k].teacher # tasks[l].teacher
              /\ Range(tasks[k].groups) \cap Range(tasks[l].groups) = {}
              /\ plan[k][2] # plan[l][2]

\* a feasible full assignment of the expanded tasks exists
Feasible ==
    \E plan \in [DOMAIN tasks -> Range(slots) \X {r.name : r \in Range(data.rooms)}] :
        ValidPlan(plan)

\* C19: the solve of ContendedRequest returns a diagnostic although a
\* feasible full assignment of its tasks exists.
C19_GreedyIncomplete ==
    (pc = "returned" /\ data = ContendedRequest) =>
        /\ Len(tasks) = 2
        /\ Feasible
        /\ Len(result.errors) = 1 /\ Len(result.schedule) = 1

\* C19 witness: the solve of ContendedRequest has returned, T1 holding the
\* only slot in which T2 is free.
C19_Witness ==
    /\ pc = "returned" /\ data = ContendedRequest
    /\ \E e \in Range(result.schedule) : e.teacher = "T1" /\ e.slot = "Mon 09:00"
    /\ \E d \in Range(result.errors) : d.teacher = "T2" /\ d.reason = NoRoomOfCapacity

\* C20: the room of every entry, committed or returned, is one of the rooms
\* the request configures, whatever teacher_prefs holds.
C20_RoomConfigured ==
    \A sched \in Schedules : \A k \in DOMAIN sched :
        \E i \in DOMAIN data.rooms : data.rooms[i].name = sched[k].room

=============================================================================
